---- MODULE Spec2Model ----
(***************************************************************************)
(* Model of the manifest-building reconciliation engine of                 *)
(* build_manifest.py: the filename parser (FILENAME_RE, extract_from_path), *)
(* the dataset classifier (get_dataset_type), the candidate selector        *)
(* (select_best_candidate) and the grouping / pairing loops of main();     *)
(* of the resumable file harvest of harvester.py (harvest_files); and of   *)
(* the pagination and retry logic of labcas_client.py                      *)
(* (list_all_files_for_dataset, _get).                                     *)
(*                                                                         *)
(* Strings that the code inspects character by character (file             *)
(* identifiers, dataset identifiers, patient and view tokens) are          *)
(* sequences of one-character strings.  Strings the code only compares     *)
(* or copies as a whole (DatasetName, display names, reason codes) are     *)
(* TLA+ strings.  Python's None is the empty sequence << >>, a present     *)
(* optional value v is << v >>.                                            *)
(***************************************************************************)
EXTENDS Integers, Sequences, FiniteSets, TLC

(***************************************************************************)
(* Characters: code points, classes, case mapping.                         *)
(***************************************************************************)
Digits == <<"0", "1", "2", "3", "4", "5", "6", "7", "8", "9">>

Uppers == <<"A", "B", "C", "D", "E", "F", "G", "H", "I", "J", "K", "L", "M",
            "N", "O", "P", "Q", "R", "S", "T", "U", "V", "W", "X", "Y", "Z">>

Lowers == <<"a", "b", "c", "d", "e", "f", "g", "h", "i", "j", "k", "l", "m",
            "n", "o", "p", "q", "r", "s", "t", "u", "v", "w", "x", "y", "z">>

\* the ASCII characters from code point 45 on, in code order (the two
\* characters a TLA+ string cannot hold are named)
Ascii45 == <<"-", ".", "/", "0", "1", "2", "3", "4", "5", "6", "7", "8", "9",
             ":", ";", "<", "=", ">", "?", "@",
             "A", "B", "C", "D", "E", "F", "G", "H", "I", "J", "K", "L", "M",
             "N", "O", "P", "Q", "R", "S", "T", "U", "V", "W", "X", "Y", "Z",
             "[", "(backslash)", "]", "^", "_", "(backquote)",
             "a", "b", "c", "d", "e", "f", "g", "h", "i", "j", "k", "l", "m",
             "n", "o", "p", "q", "r", "s", "t", "u", "v", "w", "x", "y", "z">>

Range(s) == {s[i] : i \in DOMAIN s}

DigitSet == Range(Digits)

UpperSet == Range(Uppers)

LowerSet == Range(Lowers)

IndexIn(s, c) == CHOOSE i \in DOMAIN s : s[i] = c

\* \d
IsDigit(c) == c \in DigitSet

\* the view class of the pattern widened to letters and digits
IsAlpha_OrDigit(c) == c \in UpperSet \cup LowerSet \cup DigitSet

\* [A-Z] under re.IGNORECASE
IsAlpha(c) == c \in UpperSet \cup LowerSet

\* ord(c): the code point Python compares strings by
Ord(c) == IF c = "\n" THEN 10 ELSE 44 + IndexIn(Ascii45, c)

\* str.upper() on one character
UpperChar(c) == IF c \in LowerSet THEN Uppers[IndexIn(Lowers, c)] ELSE c

\* str.lower() on one character
LowerChar(c) == IF c \in UpperSet THEN Lowers[IndexIn(Uppers, c)] ELSE c

\* str.upper()
Upper(s) == [i \in DOMAIN s |-> UpperChar(s[i])]

\* Python's  a < b  on strings: lexicographic by code point, a proper
\* prefix is smaller
RECURSIVE StrLess(_, _)
StrLess(a, b) ==
    IF b = << >> THEN FALSE
    ELSE IF a = << >> THEN TRUE
    ELSE IF a[1] = b[1] THEN StrLess(Tail(a), Tail(b))
    ELSE LET codes == [c \in {a[1], b[1]} |-> Ord(c)]
         IN  codes[a[1]] < codes[b[1]]

\* Python's  needle in hay  on strings
Contains(hay, needle) ==
    \E i \in 0..(Len(hay) - Len(needle)) :
        SubSeq(hay, i + 1, i + Len(needle)) = needle

\* path_str.split("/")[-1]
LastSegment(s) ==
    LET slashes == {i \in DOMAIN s : s[i] = "/"}
    IN  IF slashes = {} THEN s
        ELSE LET last == CHOOSE i \in slashes : \A j \in slashes : j <= i
             IN  SubSeq(s, last + 1, Len(s))

\* int(digits)
RECURSIVE DigitsToInt(_)
DigitsToInt(ds) ==
    IF ds = << >> THEN 0
    ELSE 10 * DigitsToInt(SubSeq(ds, 1, Len(ds) - 1))
         + (IndexIn(Digits, ds[Len(ds)]) - 1)

Max(S) == CHOOSE x \in S : \A y \in S : y <= x

Min(S) == CHOOSE x \in S : \A y \in S : x <= y

(***************************************************************************)
(* FILENAME_RE = (?P<patient>[CN]\d{3,4}).*?_(?P<view>[A-Z]+)              *)
(*               (?:_(?P<suffix>\d+))?\.dcm$      with re.IGNORECASE       *)
(* matched by a backtracking search with the engine's priorities:          *)
(* leftmost start, greedy \d{3,4}, lazy .*?, greedy [A-Z]+, greedy         *)
(* optional suffix group.                                                  *)
(***************************************************************************)
\* number of consecutive digits of s starting at position k
RECURSIVE DigitRun(_, _)
DigitRun(s, k) ==
    IF k <= Len(s) /\ IsDigit(s[k]) THEN 1 + DigitRun(s, k + 1) ELSE 0

\* number of consecutive letters of s starting at position k
RECURSIVE AlphaRun(_, _)
AlphaRun(s, k) ==
    IF k <= Len(s) /\ IsAlpha(s[k]) THEN 1 + AlphaRun(s, k + 1) ELSE 0

\* $ : at the end of the string, or just before a final newline
AtEnd(s, k) == k = Len(s) + 1 \/ (k = Len(s) /\ s[k] = "\n")

\* \.dcm$ at position k
ExtAt(s, k) ==
    /\ k + 3 <= Len(s)
    /\ s[k] = "."
    /\ [i \in 1..3 |-> LowerChar(s[k + i])] = <<"d", "c", "m">>
    /\ AtEnd(s, k + 4)

NoMatch == [ok |-> FALSE, patient |-> << >>, view |-> << >>, suffix |-> << >>]

\* the alternatives of one backtracking point, by priority: the match the
\* engine takes is the successful one it tries first
LastOk(alts) ==
    LET oks == {i \in DOMAIN alts : alts[i].ok}
    IN  IF oks = {} THEN NoMatch ELSE alts[Max(oks)]

FirstOk(alts) ==
    LET oks == {i \in DOMAIN alts : alts[i].ok}
    IN  IF oks = {} THEN NoMatch ELSE alts[Min(oks)]

\* (?:_(?P<suffix>\d+))?\.dcm$ at position k: first with the suffix group
\* (m digits, the longest run first), last without it (m = 0)
TailMatch(s, k) ==
    LET run == IF k <= Len(s) /\ s[k] = "_" THEN DigitRun(s, k + 1) ELSE 0
    IN  LastOk([m \in 0..run |->
                  IF ExtAt(s, IF m = 0 THEN k ELSE k + 1 + m)
                  THEN [NoMatch EXCEPT !.ok = TRUE,
                                       !.suffix = SubSeq(s, k + 1, k + m)]
                  ELSE NoMatch])

\* _(?P<view>[A-Z]+) followed by the tail, the underscore at position j:
\* the longest letter run from which the tail matches
ViewMatch(s, j) ==
    LET run == IF j <= Len(s) /\ s[j] = "_" THEN AlphaRun(s, j + 1) ELSE 0
    IN  LastOk([v \in 1..run |->
                  [TailMatch(s, j + 1 + v) EXCEPT
                       !.view = SubSeq(s, j + 1, j + v)]])

\* .*?  from position p: the nearest underscore from which the rest
\* matches ("." matches no newline)
LazyMatch(s, p) ==
    FirstOk([j \in p..Len(s) |->
               IF \A i \in p..(j - 1) : s[i] # "\n"
               THEN ViewMatch(s, j) ELSE NoMatch])

\* the whole pattern anchored at position i: four digits before three
MatchAt(s, i) ==
    LET run == IF UpperChar(s[i]) \in {"C", "N"} THEN DigitRun(s, i + 1) ELSE 0
    IN  LastOk([d \in 3..4 |->
                  IF d <= run
                  THEN [LazyMatch(s, i + 1 + d) EXCEPT
                            !.patient = SubSeq(s, i, i + d)]
                  ELSE NoMatch])

\* FILENAME_RE.search(s): the leftmost position the pattern matches at
FILENAME_RE(s) == FirstOk([i \in DOMAIN s |-> MatchAt(s, i)])

\* the tuple extract_from_path returns for a match
ParsedOf(m) ==
    IF ~m.ok THEN << >>
    ELSE << [patient |-> m.patient,
             view |-> Upper(m.view),
             suffix |-> IF m.suffix = << >> THEN << >>
                        ELSE << DigitsToInt(m.suffix) >>] >>

\* extract_from_path: << >> for None, else <<[patient, view, suffix]>>
\* where suffix is << >> (None) or << n >>
extract_from_path(path_str) == ParsedOf(FILENAME_RE(LastSegment(path_str)))

(***************************************************************************)
(* Input values.  A file entry of the harvested document is a record       *)
(* [file_id, name]; file_id << >> is a missing / null / empty identifier.  *)
(* A JSON value that may be absent, null, a string or a list of strings    *)
(* is a record tagged by t, the string in s, the list in l.                *)
(***************************************************************************)
Absent == [t |-> "absent", s |-> "", l |-> << >>]

Null == [t |-> "null", s |-> "", l |-> << >>]

Str(v) == [t |-> "str", s |-> v, l |-> << >>]

List(v) == [t |-> "list", s |-> "", l |-> v]

DOT_DCM == <<".", "d", "c", "m">>

FID_C025_LCC == <<"C", "0", "2", "5", "_", "L", "C", "C">> \o DOT_DCM

FID_c025_lcc == <<"d", "/", "c", "0", "2", "5", "_", "x", "_", "l", "c", "c",
                  ".", "D", "C", "M">>

FID_C025_LCC_2 == <<"C", "0", "2", "5", "_", "L", "C", "C", "_", "2">> \o DOT_DCM

FID_N0500_RMLO == <<"N", "0", "5", "0", "0", "_", "R", "M", "L", "O">> \o DOT_DCM

FID_C025_RCC == <<"C", "0", "2", "5", "_", "R", "C", "C">> \o DOT_DCM

FID_C025_L1 == <<"C", "0", "2", "5", "_", "L", "1">> \o DOT_DCM

FID_N0500_R2D == <<"N", "0", "5", "0", "0", "_", "R", "M", "L", "O", "_",
                   "R", "2", "D">> \o DOT_DCM

FID_C025_XCC == <<"C", "0", "2", "5", "_", "X", "C", "C">> \o DOT_DCM

\* the file entries the input document is drawn from; identifiers are
\* unique among file records (data model of the harvested document)
FileRecs ==
    { [file_id |-> FID_C025_LCC, name |-> List(<<"n1">>)],
      [file_id |-> FID_c025_lcc, name |-> Str("n2")],
      [file_id |-> FID_C025_LCC_2, name |-> List(<<"n3", "x">>)],
      [file_id |-> FID_N0500_RMLO, name |-> Null],
      [file_id |-> FID_C025_RCC, name |-> Str("n8")],
      [file_id |-> FID_C025_L1, name |-> List(<< >>)],
      [file_id |-> FID_N0500_R2D, name |-> Str("n9")],
      [file_id |-> FID_C025_XCC, name |-> Absent],
      [file_id |-> << >>, name |-> Str("n7")] }

\* a file_id that is a JSON number, not a string: the tag, then its digits
NUM_7 == <<"(number)", "7">>

NUM_0 == <<"(number)", "0">>

\* file entries whose file_id is no string
MalformedRecs ==
    { [file_id |-> NUM_7, name |-> Absent],
      [file_id |-> NUM_0, name |-> Absent] }

\* isinstance(file_id, str)
IsStr(file_id) == file_id = << >> \/ file_id[1] # "(number)"

\* bool(file_id): None, "" and 0 are falsy
Truthy(file_id) == file_id # << >> /\ file_id # NUM_0

\* the DatasetName values of dataset_metadata
DatasetNames ==
    { Absent, Null, Str("PROC"), Str("MASK"), Str("RAW"), Str("proc"),
      List(<<"PROC">>), List(<<"MASK", "PROC">>), List(<<"RAW">>), List(<< >>) }

SLASH_PROC == <<"/", "P", "R", "O", "C">>

SLASH_MASK == <<"/", "M", "A", "S", "K">>

\* the dataset identifiers (keys of the input document)
DatasetIds ==
    { <<"c">> \o SLASH_PROC,
      <<"c">> \o SLASH_MASK,
      <<"c">> \o SLASH_MASK \o SLASH_PROC,
      <<"c">> \o SLASH_PROC \o <<"x">>,
      <<"c", "/", "R", "A", "W">>,
      <<"c", "/", "p", "r", "o", "c">>,
      <<"P", "R", "O", "C">>,
      <<"M", "A", "S", "K", "/", "c">> }

(***************************************************************************)
(* get_dataset_type(meta, dataset_id): << "PROC" >>, << "MASK" >> or       *)
(* << >> (None).  meta is the record [DatasetName |-> tagged value].       *)
(***************************************************************************)
\* the classifier with the identifier inspected before the declared name
get_dataset_type_IdFirst(meta, dataset_id) ==
    IF Contains(dataset_id, SLASH_PROC) THEN << "PROC" >>
    ELSE IF Contains(dataset_id, SLASH_MASK) THEN << "MASK" >>
    ELSE IF meta.DatasetName.t = "str" /\ meta.DatasetName.s \in {"PROC", "MASK"}
    THEN << meta.DatasetName.s >>
    ELSE IF meta.DatasetName.t = "list" /\ meta.DatasetName.l # << >>
            /\ meta.DatasetName.l[1] \in {"PROC", "MASK"}
    THEN << meta.DatasetName.l[1] >>
    ELSE << >>

get_dataset_type(meta, dataset_id) ==
    LET val == meta.DatasetName
        name == CASE val.t = "absent" -> ""
                  [] val.t = "list" -> IF val.l # << >> THEN val.l[1] ELSE ""
                  [] val.t = "null" -> "None"
                  [] val.t = "str" -> val.s
    IN  IF name \in {"PROC", "MASK"} THEN << name >>
        ELSE IF Contains(dataset_id, SLASH_PROC) THEN << "PROC" >>
        ELSE IF Contains(dataset_id, SLASH_MASK) THEN << "MASK" >>
        ELSE << >>

(***************************************************************************)
(* select_best_candidate(candidates): [best, info] where best is << >>     *)
(* (None) or << file entry >>.                                             *)
(***************************************************************************)
\* list.sort(key=file_id): a stable sort, here by insertion
RECURSIVE InsertByFileId(_, _)
InsertByFileId(sorted, e) ==
    IF sorted = << >> THEN << e >>
    ELSE IF StrLess(e.file_id, sorted[Len(sorted)].file_id)
         THEN Append(InsertByFileId(SubSeq(sorted, 1, Len(sorted) - 1), e),
                     sorted[Len(sorted)])
         ELSE Append(sorted, e)

\* the clean candidates left in harvest order
SortByFileId_Unsorted(l) == l

RECURSIVE SortByFileId(_)
SortByFileId(l) ==
    IF l = << >> THEN << >>
    ELSE InsertByFileId(SortByFileId(SubSeq(l, 1, Len(l) - 1)), l[Len(l)])

\* the loop body without the suffix test of line 94
CleanIf_KeepSuffixed(c, parsed) ==
    IF parsed = << >> THEN << >>
    ELSE << [row |-> c, file_id |-> c.file_id] >>

\* the loop body of lines 85-100: what one candidate adds to
\* clean_candidates, given the result of parsing its identifier
CleanIf(c, parsed) ==
    IF parsed = << >> THEN << >>
    ELSE IF parsed[1].suffix # << >> THEN << >>
    ELSE << [row |-> c, file_id |-> c.file_id] >>

CleanEntry(c) == CleanIf(c, extract_from_path(c.file_id))

RECURSIVE CleanCandidates(_)
CleanCandidates(candidates) ==
    IF candidates = << >> THEN << >>
    ELSE CleanEntry(Head(candidates)) \o CleanCandidates(Tail(candidates))

\* a selector that falls back to the first candidate when none is clean
select_best_candidate_Fallback(candidates) ==
    IF CleanCandidates(candidates) = << >> /\ candidates # << >>
    THEN [best |-> << candidates[1] >>,
          info |-> [reason |-> "clean_file_selected"]]
    ELSE IF CleanCandidates(candidates) = << >>
    THEN [best |-> << >>, info |-> [reason |-> "no_clean_file_found"]]
    ELSE [best |-> << SortByFileId(CleanCandidates(candidates))[1].row >>,
          info |-> [reason |-> "clean_file_selected"]]

\* lines 102-110, given clean_candidates
ChooseFrom(clean_candidates) ==
    IF clean_candidates = << >>
    THEN [best |-> << >>, info |-> [reason |-> "no_clean_file_found"]]
    ELSE [best |-> << SortByFileId(clean_candidates)[1].row >>,
          info |-> [reason |-> "clean_file_selected"]]

select_best_candidate(candidates) == ChooseFrom(CleanCandidates(candidates))

\* _get_name(file_entry)
get_name(file_entry) ==
    LET raw == file_entry.name
    IN  CASE raw.t = "absent" -> ""
          [] raw.t = "list" -> IF raw.l # << >> THEN raw.l[1] ELSE ""
          [] raw.t = "null" -> "None"
          [] raw.t = "str" -> raw.s

\* the allowed set with one more view code
ALLOWED_VIEWS_Wider ==
    { <<"L", "C", "C">>, <<"L", "M", "L", "O">>,
      <<"R", "C", "C">>, <<"R", "M", "L", "O">>, <<"X", "C", "C">> }

ALLOWED_VIEWS ==
    { <<"L", "C", "C">>, <<"L", "M", "L", "O">>,
      <<"R", "C", "C">>, <<"R", "M", "L", "O">> }

\* the fixed download endpoint the rows' locators start with
BASE_URL ==
    <<"h", "t", "t", "p", "s", ":", "/", "/", "e", "d", "r", "n", "-",
       "l", "a", "b", "c", "a", "s", ".", "j", "p", "l", ".", "n", "a",
       "s", "a", ".", "g", "o", "v", "/", "d", "a", "t", "a", "-", "a",
       "c", "c", "e", "s", "s", "-", "a", "p", "i", "/", "d", "o", "w",
       "n", "l", "o", "a", "d", "?", "i", "d", "=">>

(***************************************************************************)
(* Bounds of the model.                                                    *)
(***************************************************************************)
\* files scanned in one run (total_files never exceeds it)
MaxFiles == 4

\* length of the candidate lists the selector is applied to on its own
MaxCands == 3

(***************************************************************************)
(* State of one run of main().                                             *)
(***************************************************************************)
VARIABLES
    pc,              \* position in main(): start, datasets, files,
                     \* reconcile, done, aborted, raised
    input_exists,    \* args.input.exists()
    ds_type,         \* role of the dataset whose files are being scanned
    groups,          \* (patient, view) -> [proc, mask] candidate lists
    groups_stripped, \* the grouping map of the same document without its
                     \* suffix-bearing files, built in lockstep
    total_files, skipped_files, skipped_views,
    todo,            \* the part of sorted(groups.items()) still to process
    rows, decisions, half_pairs, total_groups,
    best_proc, proc_info, best_mask, mask_info,
    manifest_out,    \* << >> until written, then << rows >>
    diag_out,        \* << >> until written, then << diagnostics >>
    candidates, selected,      \* a lone call of select_best_candidate
    ds_meta, ds_id, ds_role,   \* a lone call of get_dataset_type
    h_pc,            \* harvest_files: off, idle (no run), loop (in the for)
    h_disk,          \* resources_by_dataset.json: << >> or << mapping >>
    h_mem,           \* resources_by_dataset of the running call
    h_leaf,          \* the leaf datasets the for loop has still to visit
    h_runs,          \* calls of harvest_files started so far
    h_last,          \* the last iteration: its dataset id and outcome
    h_failed,        \* ids whose harvest raised in the running call
    h_ret,           \* << >> or << the mapping the last call returned >>
    c_pc,            \* list_all_files_for_dataset and the _get it calls:
                     \* off, page, ensure, send, refresh401, resend, got,
                     \* handler, returned, raised
    c_docs,          \* how many file documents the server has
    c_start,         \* start
    c_all,           \* all_files
    c_token_old,     \* the token is older than token_max_age (it may be
                     \* when the call begins)
    g_post,          \* use_post of the innermost _get
    g_requests,      \* requests the top-level _get has sent for its path
    g_auth,          \* token requests made inside the top-level _get
    g_result         \* << >> or << the JSON the _get returned >>

mainVars ==
    <<pc, input_exists, ds_type, groups, groups_stripped, total_files,
      skipped_files, skipped_views, todo, rows, decisions, half_pairs,
      total_groups, best_proc, proc_info, best_mask, mask_info,
      manifest_out, diag_out>>

selectVars == <<candidates, selected>>

classifyVars == <<ds_meta, ds_id, ds_role>>

harvestVars ==
    <<h_pc, h_disk, h_mem, h_leaf, h_runs, h_last, h_failed, h_ret>>

clientVars ==
    <<c_pc, c_docs, c_start, c_all, c_token_old, g_post, g_requests,
      g_auth, g_result>>

vars == <<mainVars, selectVars, classifyVars, harvestVars, clientVars>>

EmptyFun == [k \in {} |-> << >>]

MainIdle ==
    /\ ds_type = << >>
    /\ groups = EmptyFun
    /\ groups_stripped = EmptyFun
    /\ total_files = 0
    /\ skipped_files = 0
    /\ skipped_views = 0
    /\ todo = << >>
    /\ rows = << >>
    /\ decisions = EmptyFun
    /\ half_pairs = << >>
    /\ total_groups = 0
    /\ best_proc = << >>
    /\ proc_info = << >>
    /\ best_mask = << >>
    /\ mask_info = << >>
    /\ manifest_out = << >>
    /\ diag_out = << >>

SelectIdle == candidates = << >> /\ selected = << >>

ClassifyIdle == ds_meta = << >> /\ ds_id = << >> /\ ds_role = << >>

NoIteration == [did |-> << >>, outcome |-> "none"]

HarvestIdle ==
    /\ h_disk = << >>
    /\ h_mem = EmptyFun
    /\ h_leaf = << >>
    /\ h_runs = 0
    /\ h_last = NoIteration
    /\ h_failed = {}
    /\ h_ret = << >>

ClientIdle ==
    /\ c_docs = 0
    /\ c_start = 0
    /\ c_all = << >>
    /\ c_token_old = FALSE
    /\ g_post = FALSE
    /\ g_requests = 0
    /\ g_auth = 0
    /\ g_result = << >>

(***************************************************************************)
(* main(), lines 138-169: grouping.                                        *)
(***************************************************************************)
\* the key built without patient.upper()
GroupKey_NoUpper(parsed) == <<parsed.patient, Upper(parsed.view)>>

\* key = (patient.upper(), view.upper())
GroupKey(parsed) == <<Upper(parsed.patient), Upper(parsed.view)>>

\* groups[key]['proc'|'mask'].append(f) on a defaultdict
AppendToGroup(g, key, role, f) ==
    LET cur == IF key \in DOMAIN g THEN g[key]
               ELSE [proc |-> << >>, mask |-> << >>]
        new == IF role = << "PROC" >> THEN [cur EXCEPT !.proc = Append(@, f)]
               ELSE [cur EXCEPT !.mask = Append(@, f)]
    IN  IF role \notin {<< "PROC" >>, << "MASK" >>} THEN g
        ELSE [k \in (DOMAIN g) \cup {key} |-> IF k = key THEN new ELSE g[k]]

\* main() without the check of the input path
Abort_Proceeds ==
    /\ pc = "start"
    /\ ~input_exists
    /\ pc' = "datasets"
    /\ UNCHANGED <<input_exists, ds_type, groups, groups_stripped,
                   total_files, skipped_files, skipped_views, todo, rows,
                   decisions, half_pairs, total_groups, best_proc, proc_info,
                   best_mask, mask_info, manifest_out, diag_out>>
    /\ UNCHANGED <<selectVars, classifyVars, harvestVars, clientVars>>

\* if not args.input.exists(): raise SystemExit
Abort ==
    /\ pc = "start"
    /\ ~input_exists
    /\ pc' = "aborted"
    /\ UNCHANGED <<input_exists, ds_type, groups, groups_stripped,
                   total_files, skipped_files, skipped_views, todo, rows,
                   decisions, half_pairs, total_groups, best_proc, proc_info,
                   best_mask, mask_info, manifest_out, diag_out>>
    /\ UNCHANGED <<selectVars, classifyVars, harvestVars, clientVars>>

\* data = json.loads(...); groups = defaultdict(...); counters = 0
Load ==
    /\ pc = "start"
    /\ input_exists
    /\ pc' = "datasets"
    /\ UNCHANGED <<input_exists, ds_type, groups, groups_stripped,
                   total_files, skipped_files, skipped_views, todo, rows,
                   decisions, half_pairs, total_groups, best_proc, proc_info,
                   best_mask, mask_info, manifest_out, diag_out>>
    /\ UNCHANGED <<selectVars, classifyVars, harvestVars, clientVars>>

\* the dataset loop without its  continue : the files of a dataset of
\* unknown role are scanned like the others
NextDataset_NoSkip(meta, dataset_id) ==
    /\ pc = "datasets"
    /\ ds_type' = get_dataset_type(meta, dataset_id)
    /\ pc' = "files"
    /\ UNCHANGED <<input_exists, groups, groups_stripped,
                   total_files, skipped_files, skipped_views, todo, rows,
                   decisions, half_pairs, total_groups, best_proc, proc_info,
                   best_mask, mask_info, manifest_out, diag_out>>
    /\ UNCHANGED <<selectVars, classifyVars, harvestVars, clientVars>>

\* one iteration of  for dataset_id, payload in data.items()  up to the
\* inner loop: classify, skip the dataset when the role is None
NextDataset(meta, dataset_id) ==
    /\ pc = "datasets"
    /\ ds_type' = get_dataset_type(meta, dataset_id)
    /\ pc' = IF ds_type' = << >> THEN "datasets" ELSE "files"
    /\ UNCHANGED <<input_exists, groups, groups_stripped,
                   total_files, skipped_files, skipped_views, todo, rows,
                   decisions, half_pairs, total_groups, best_proc, proc_info,
                   best_mask, mask_info, manifest_out, diag_out>>
    /\ UNCHANGED <<selectVars, classifyVars, harvestVars, clientVars>>

\* the body of  for f in files  after total_files += 1, given the
\* result of parsing the identifier
GroupParsed(f, parsed) ==
    IF ~Truthy(f.file_id)
    THEN UNCHANGED <<skipped_files, skipped_views, groups, groups_stripped>>
    ELSE IF parsed = << >>
    THEN /\ skipped_files' = skipped_files + 1
         /\ UNCHANGED <<skipped_views, groups, groups_stripped>>
    ELSE IF parsed[1].view \notin ALLOWED_VIEWS
    THEN /\ skipped_views' = skipped_views + 1
         /\ UNCHANGED <<skipped_files, groups, groups_stripped>>
    ELSE /\ groups' = AppendToGroup(groups, GroupKey(parsed[1]), ds_type, f)
         /\ groups_stripped' =
                IF parsed[1].suffix = << >>
                THEN AppendToGroup(groups_stripped, GroupKey(parsed[1]),
                                   ds_type, f)
                ELSE groups_stripped
         /\ UNCHANGED <<skipped_files, skipped_views>>

\* one iteration of  for f in files
ProcessFile(f) ==
    /\ pc = "files"
    /\ total_files < MaxFiles
    /\ total_files' = total_files + 1
    /\ IF Truthy(f.file_id) /\ ~IsStr(f.file_id)
       THEN \* path_str.split: AttributeError, main() ends with a traceback
            /\ pc' = "raised"
            /\ UNCHANGED <<skipped_files, skipped_views, groups,
                           groups_stripped>>
       ELSE /\ pc' = pc
            /\ GroupParsed(f, extract_from_path(f.file_id))
    /\ UNCHANGED <<input_exists, ds_type, todo, rows,
                   decisions, half_pairs, total_groups, best_proc, proc_info,
                   best_mask, mask_info, manifest_out, diag_out>>
    /\ UNCHANGED <<selectVars, classifyVars, harvestVars, clientVars>>

\* the files of the dataset are exhausted
EndFiles ==
    /\ pc = "files"
    /\ pc' = "datasets"
    /\ UNCHANGED <<input_exists, ds_type, groups, groups_stripped,
                   total_files, skipped_files, skipped_views, todo, rows,
                   decisions, half_pairs, total_groups, best_proc, proc_info,
                   best_mask, mask_info, manifest_out, diag_out>>
    /\ UNCHANGED <<selectVars, classifyVars, harvestVars, clientVars>>

(***************************************************************************)
(* main(), lines 176-222: pairing, one group at a time in key order.       *)
(***************************************************************************)
\* (patient, view) < (patient, view) as Python compares tuples of strings
KeyLess(a, b) ==
    \/ StrLess(a[1], b[1])
    \/ (a[1] = b[1] /\ StrLess(a[2], b[2]))

\* the keys in descending order
RECURSIVE SortedKeys_Descending(_)
SortedKeys_Descending(S) ==
    IF S = {} THEN << >>
    ELSE LET greatest == CHOOSE k \in S : \A o \in S \ {k} : KeyLess(o, k)
         IN  << greatest >> \o SortedKeys_Descending(S \ {greatest})

\* the keys of sorted(groups.items())
RECURSIVE SortedKeys(_)
SortedKeys(S) ==
    IF S = {} THEN << >>
    ELSE LET least == CHOOSE k \in S : \A o \in S \ {k} : KeyLess(k, o)
         IN  << least >> \o SortedKeys(S \ {least})

\* the diagnostics key without the view
KeyStr_PatientOnly(key) == key[1]

\* key_str = f"{patient}_{view}"
KeyStr(key) == key[1] \o <<"_">> \o key[2]

\* if best_proc and best_mask  (a file entry is a non-empty dict)
PairFormed(bp, bm) == bp # << >> /\ bm # << >>

\* the selector is only called on a non-empty list, else (None, None)
\* the emptiness guard of lines 189 / 194 written as  len(list) > 1
SelectIfAny_LenGt1(list) ==
    IF Len(list) > 1
    THEN [best |-> select_best_candidate(list).best,
          info |-> << select_best_candidate(list).info >>]
    ELSE [best |-> << >>, info |-> << >>]

Returned(r) == [best |-> r.best, info |-> << r.info >>]

SelectIfAny(list) ==
    IF list # << >> THEN Returned(select_best_candidate(list))
    ELSE [best |-> << >>, info |-> << >>]

\* the label compared without upper-casing, against a lower-case c
GroupLabel_Lower(patient) ==
    IF patient[1] = "c" THEN "case" ELSE "control"

\* "case" if patient[0].upper() == "C" else "control"
GroupLabel(patient) ==
    IF UpperChar(patient[1]) = "C" THEN "case" ELSE "control"

ManifestRow(key, bp, bm) ==
    [group |-> GroupLabel(key[1]),
     patient_id |-> key[1],
     view |-> key[2],
     proc_url |-> BASE_URL \o bp.file_id,
     mask_url |-> BASE_URL \o bm.file_id,
     proc_name |-> get_name(bp),
     mask_name |-> get_name(bm)]

\* lines 209-214: the decisions entry of a paired group
Decision(cands, p, m) ==
    [proc |-> p.info, mask |-> m.info,
     proc_candidates_count |-> Len(cands.proc),
     mask_candidates_count |-> Len(cands.mask)]

\* the half_pairs entry with its two flags exchanged
HalfPair_Swapped(key_str, cands, p, m) ==
    [group |-> key_str,
     has_proc |-> m.best # << >>,
     has_mask |-> p.best # << >>,
     proc_candidates |-> Len(cands.proc),
     mask_candidates |-> Len(cands.mask)]

\* lines 216-222: the half_pairs entry of an unpaired group
HalfPair(key_str, cands, p, m) ==
    [group |-> key_str,
     has_proc |-> p.best # << >>,
     has_mask |-> m.best # << >>,
     proc_candidates |-> Len(cands.proc),
     mask_candidates |-> Len(cands.mask)]

\* lines 197-222: what one group adds to rows / decisions / half_pairs,
\* given the two selections p and m
Pairing(key, cands, acc, p, m) ==
    LET key_str == KeyStr(key)
        paired == PairFormed(p.best, m.best)
    IN  [rows |-> IF paired
                  THEN Append(acc.rows, ManifestRow(key, p.best[1], m.best[1]))
                  ELSE acc.rows,
         decisions |->
             IF paired
             THEN [k \in (DOMAIN acc.decisions) \cup {key_str} |->
                     IF k = key_str THEN Decision(cands, p, m)
                     ELSE acc.decisions[k]]
             ELSE acc.decisions,
         half_pairs |->
             IF paired THEN acc.half_pairs
             ELSE Append(acc.half_pairs, HalfPair(key_str, cands, p, m)),
         best_proc |-> p.best, proc_info |-> p.info,
         best_mask |-> m.best, mask_info |-> m.info]

\* the body of  for (patient, view), candidates in sorted(groups.items())
\* applied to the accumulated rows / decisions / half_pairs
ReconcileOne(key, cands, acc) ==
    Pairing(key, cands, acc, SelectIfAny(cands.proc), SelectIfAny(cands.mask))

\* the whole pairing loop over a grouping map
RECURSIVE ReconcileFrom(_, _, _)
ReconcileFrom(keys, g, acc) ==
    IF keys = << >> THEN acc
    ELSE ReconcileFrom(Tail(keys), g, ReconcileOne(Head(keys), g[Head(keys)], acc))

EmptyAcc ==
    [rows |-> << >>, decisions |-> EmptyFun, half_pairs |-> << >>,
     best_proc |-> << >>, proc_info |-> << >>,
     best_mask |-> << >>, mask_info |-> << >>]

\* the assignments one iteration of the pairing loop makes
Assign(r) ==
    /\ rows' = r.rows
    /\ decisions' = r.decisions
    /\ half_pairs' = r.half_pairs
    /\ best_proc' = r.best_proc
    /\ proc_info' = r.proc_info
    /\ best_mask' = r.best_mask
    /\ mask_info' = r.mask_info

\* the rows main() produces from a grouping map
RowsOf(g) == ReconcileFrom(SortedKeys(DOMAIN g), g, EmptyAcc).rows

\* the datasets are exhausted: rows = [], diagnostics = {...}, sort the groups
EndDatasets ==
    /\ pc = "datasets"
    /\ pc' = "reconcile"
    /\ todo' = SortedKeys(DOMAIN groups)
    /\ total_groups' = Cardinality(DOMAIN groups)
    /\ rows' = << >>
    /\ decisions' = EmptyFun
    /\ half_pairs' = << >>
    /\ UNCHANGED <<input_exists, ds_type, groups, groups_stripped,
                   total_files, skipped_files, skipped_views,
                   best_proc, proc_info, best_mask, mask_info,
                   manifest_out, diag_out>>
    /\ UNCHANGED <<selectVars, classifyVars, harvestVars, clientVars>>

\* one iteration of the pairing loop
ReconcileGroup ==
    /\ pc = "reconcile"
    /\ todo # << >>
    /\ Assign(ReconcileOne(Head(todo), groups[Head(todo)],
                            [rows |-> rows, decisions |-> decisions,
                             half_pairs |-> half_pairs]))
    /\ todo' = Tail(todo)
    /\ UNCHANGED <<pc, input_exists, ds_type, groups, groups_stripped,
                   total_files, skipped_files, skipped_views, total_groups,
                   manifest_out, diag_out>>
    /\ UNCHANGED <<selectVars, classifyVars, harvestVars, clientVars>>

\* lines 224-232: write the CSV manifest and the diagnostics
WriteOutputs ==
    /\ pc = "reconcile"
    /\ todo = << >>
    /\ pc' = "done"
    /\ manifest_out' = << rows >>
    /\ diag_out' = << [total_groups |-> total_groups,
                       decisions |-> decisions,
                       rejected_groups |-> << >>,
                       half_pairs |-> half_pairs] >>
    /\ UNCHANGED <<input_exists, ds_type, groups, groups_stripped,
                   total_files, skipped_files, skipped_views, todo, rows,
                   decisions, half_pairs, total_groups, best_proc, proc_info,
                   best_mask, mask_info>>
    /\ UNCHANGED <<selectVars, classifyVars, harvestVars, clientVars>>

Init ==
    /\ pc = "start"
    /\ input_exists \in BOOLEAN
    /\ MainIdle
    /\ SelectIdle
    /\ ClassifyIdle
    /\ h_pc = "off"
    /\ HarvestIdle
    /\ c_pc = "off"
    /\ ClientIdle

Next ==
    \/ Abort
    \/ Load
    \/ \E n \in DatasetNames, d \in DatasetIds :
           NextDataset([DatasetName |-> n], d)
    \/ \E f \in FileRecs \cup MalformedRecs : ProcessFile(f)
    \/ EndFiles
    \/ EndDatasets
    \/ ReconcileGroup
    \/ WriteOutputs

Spec == Init /\ [][Next]_vars

(***************************************************************************)
(* select_best_candidate on its own: any list of file entries.             *)
(***************************************************************************)
SeqsUpTo(S, n) == UNION {[1..k -> S] : k \in 0..n}

InitSelect ==
    /\ pc = "select"
    /\ input_exists = TRUE
    /\ MainIdle
    /\ ClassifyIdle
    /\ candidates \in SeqsUpTo(FileRecs, MaxCands)
    /\ selected = << >>
    /\ h_pc = "off"
    /\ HarvestIdle
    /\ c_pc = "off"
    /\ ClientIdle

SelectCall ==
    /\ pc = "select"
    /\ pc' = "selected"
    /\ selected' = << select_best_candidate(candidates) >>
    /\ UNCHANGED <<candidates, classifyVars, harvestVars, clientVars>>
    /\ UNCHANGED <<input_exists, ds_type, groups, groups_stripped,
                   total_files, skipped_files, skipped_views, todo, rows,
                   decisions, half_pairs, total_groups, best_proc, proc_info,
                   best_mask, mask_info, manifest_out, diag_out>>

NextSelect == SelectCall

SpecSelect == InitSelect /\ [][NextSelect]_vars

(***************************************************************************)
(* get_dataset_type on its own: any declared name, any identifier.         *)
(***************************************************************************)
InitClassify ==
    /\ pc = "classify"
    /\ input_exists = TRUE
    /\ MainIdle
    /\ SelectIdle
    /\ ds_meta \in {[DatasetName |-> n] : n \in DatasetNames}
    /\ ds_id \in DatasetIds
    /\ ds_role = << >>
    /\ h_pc = "off"
    /\ HarvestIdle
    /\ c_pc = "off"
    /\ ClientIdle

ClassifyCall ==
    /\ pc = "classify"
    /\ pc' = "classified"
    /\ ds_role' = << get_dataset_type(ds_meta, ds_id) >>
    /\ UNCHANGED <<ds_meta, ds_id, selectVars, harvestVars, clientVars>>
    /\ UNCHANGED <<input_exists, ds_type, groups, groups_stripped,
                   total_files, skipped_files, skipped_views, todo, rows,
                   decisions, half_pairs, total_groups, best_proc, proc_info,
                   best_mask, mask_info, manifest_out, diag_out>>

NextClassify == ClassifyCall

SpecClassify == InitClassify /\ [][NextClassify]_vars

(***************************************************************************)
(* harvester.py, LabCASHarvester.harvest_files: repeated runs over the     *)
(* persisted resources_by_dataset.json.  One action per iteration of the   *)
(* for loop; a run may be stopped between two iterations.                  *)
(***************************************************************************)
MaxRuns == 2

MaxLeaf == 2

\* str.strip() for the blank
RECURSIVE StripLeft(_)
StripLeft(s) ==
    IF s # << >> /\ Head(s) = " " THEN StripLeft(Tail(s)) ELSE s

RECURSIVE StripRight(_)
StripRight(s) ==
    IF s # << >> /\ s[Len(s)] = " "
    THEN StripRight(SubSeq(s, 1, Len(s) - 1))
    ELSE s

Strip(s) == StripRight(StripLeft(s))

\* leaf dataset documents: id is << >> or << string >>, DatasetId the
\* list of strings (empty when the field is missing)
LEAF_A == [id |-> << <<"a">> >>, DatasetId |-> << >>]

LEAF_A_PADDED == [id |-> << <<" ", "a", " ">> >>, DatasetId |-> << <<"b">> >>]

LEAF_B == [id |-> << <<" ">> >>, DatasetId |-> << <<"b", " ">>, <<"a">> >>]

LEAF_BLANK == [id |-> << >>, DatasetId |-> << <<" ">> >>]

LEAF_NONE == [id |-> << >>, DatasetId |-> << >>]

LeafDocs == {LEAF_A, LEAF_A_PADDED, LEAF_B, LEAF_BLANK, LEAF_NONE}

\* get_dataset_id: << >> for None, else << the stripped identifier >>
get_dataset_id(d) ==
    IF d.id # << >> /\ Strip(d.id[1]) # << >> THEN << Strip(d.id[1]) >>
    ELSE IF d.DatasetId # << >> THEN << Strip(d.DatasetId[1]) >>
    ELSE << >>

\* not did
NoId(did) == IF did = << >> THEN TRUE ELSE did[1] = << >>

\* lines 195-200: the dataset has no id or is in the mapping already
Skipped(did, resources_by_dataset) ==
    IF NoId(did) THEN TRUE ELSE did[1] \in DOMAIN resources_by_dataset

\* the file documents list_all_files_for_dataset may return
FILE_1 == [id |-> << "f1" >>]

FILE_2 == [id |-> << "f2" >>]

FILE_NO_ID == [id |-> << >>]

FetchResults == { << >>, <<FILE_1, FILE_NO_ID>>, <<FILE_2>> }

\* lines 208-222: one entry per file document that has an id
RECURSIVE FileEntries(_, _)
FileEntries(files, did) ==
    IF files = << >> THEN << >>
    ELSE IF Head(files).id = << >> THEN FileEntries(Tail(files), did)
    ELSE << [file_id |-> Head(files).id[1],
             dataset_id |-> did,
             metadata |-> Head(files)] >> \o FileEntries(Tail(files), did)

\* lines 224-228
EntryOf(d, file_entries) ==
    [dataset_metadata |-> d,
     files |-> file_entries,
     file_count |-> Len(file_entries)]

\* resources_by_dataset[did] = entry
Put(m, did, entry) ==
    [k \in (DOMAIN m) \cup {did} |-> IF k = did THEN entry ELSE m[k]]

\* json.load of the persisted file when it exists, else {}
Loaded(disk) == IF disk = << >> THEN EmptyFun ELSE disk[1]

\* a call that starts from {} whatever has been persisted
HarvestStart_Fresh(leaf_datasets) ==
    /\ h_pc = "idle"
    /\ h_runs < MaxRuns
    /\ h_runs' = h_runs + 1
    /\ h_mem' = EmptyFun
    /\ h_leaf' = leaf_datasets
    /\ h_pc' = "loop"
    /\ h_last' = NoIteration
    /\ h_failed' = {}
    /\ h_ret' = << >>
    /\ UNCHANGED h_disk
    /\ UNCHANGED <<mainVars, selectVars, classifyVars, clientVars>>

\* lines 174-191: a call of harvest_files loads the persisted progress
HarvestStart(leaf_datasets) ==
    /\ h_pc = "idle"
    /\ h_runs < MaxRuns
    /\ h_runs' = h_runs + 1
    /\ h_mem' = Loaded(h_disk)
    /\ h_leaf' = leaf_datasets
    /\ h_pc' = "loop"
    /\ h_last' = NoIteration
    /\ h_failed' = {}
    /\ h_ret' = << >>
    /\ UNCHANGED h_disk
    /\ UNCHANGED <<mainVars, selectVars, classifyVars, clientVars>>

\* lines 194-200: no id, or already harvested: continue
HarvestSkip(did) ==
    /\ Skipped(did, h_mem)
    /\ h_last' = [did |-> did, outcome |-> "skipped"]
    /\ UNCHANGED <<h_mem, h_disk, h_failed>>

\* lines 206-237: the files are fetched, the entry is stored and the
\* whole mapping is written to the file
HarvestSaved(d, did, files) ==
    /\ ~Skipped(did, h_mem)
    /\ h_mem' = Put(h_mem, did[1], EntryOf(d, FileEntries(files, did[1])))
    /\ h_disk' = << h_mem' >>
    /\ h_last' = [did |-> did, outcome |-> "saved"]
    /\ UNCHANGED h_failed

\* a fetch failure that leaves an entry without files in the mapping
HarvestFetchFails_PartialEntry(did) ==
    /\ ~Skipped(did, h_mem)
    /\ h_last' = [did |-> did, outcome |-> "fetch_failed"]
    /\ h_failed' = h_failed \cup {did[1]}
    /\ h_mem' = Put(h_mem, did[1], EntryOf(LEAF_NONE, << >>))
    /\ UNCHANGED h_disk

\* line 206 raises; lines 242-245 print and continue
HarvestFetchFails(did) ==
    /\ ~Skipped(did, h_mem)
    /\ h_last' = [did |-> did, outcome |-> "fetch_failed"]
    /\ h_failed' = h_failed \cup {did[1]}
    /\ UNCHANGED <<h_mem, h_disk>>

\* the entry is stored (line 224) and then open() of the file raises
\* (line 233): the file is left as it was; lines 242-245 print and continue
HarvestSaveFails(d, did, files) ==
    /\ ~Skipped(did, h_mem)
    /\ h_mem' = Put(h_mem, did[1], EntryOf(d, FileEntries(files, did[1])))
    /\ h_last' = [did |-> did, outcome |-> "save_failed"]
    /\ h_failed' = h_failed \cup {did[1]}
    /\ UNCHANGED h_disk

\* one iteration of  for idx, d in enumerate(leaf_datasets, 1)
HarvestDataset(d, did) ==
    /\ h_pc = "loop"
    /\ h_leaf # << >>
    /\ d = Head(h_leaf)
    /\ \/ HarvestSkip(did)
       \/ \E files \in FetchResults : HarvestSaved(d, did, files)
       \/ HarvestFetchFails(did)
       \/ \E files \in FetchResults : HarvestSaveFails(d, did, files)
    /\ h_leaf' = Tail(h_leaf)
    /\ UNCHANGED <<h_pc, h_runs, h_ret>>
    /\ UNCHANGED <<mainVars, selectVars, classifyVars, clientVars>>

\* lines 247-249: the loop is over, the mapping is returned
HarvestReturn ==
    /\ h_pc = "loop"
    /\ h_leaf = << >>
    /\ h_ret' = << h_mem >>
    /\ h_pc' = "idle"
    /\ UNCHANGED <<h_disk, h_mem, h_leaf, h_runs, h_last, h_failed>>
    /\ UNCHANGED <<mainVars, selectVars, classifyVars, clientVars>>

\* the process is stopped between two iterations: what was in memory is
\* gone, the file stays
HarvestStopped ==
    /\ h_pc = "loop"
    /\ h_leaf # << >>
    /\ h_pc' = "idle"
    /\ h_mem' = EmptyFun
    /\ h_leaf' = << >>
    /\ h_failed' = {}
    /\ UNCHANGED <<h_disk, h_runs, h_last, h_ret>>
    /\ UNCHANGED <<mainVars, selectVars, classifyVars, clientVars>>

InitHarvest ==
    /\ pc = "harvest"
    /\ input_exists = TRUE
    /\ MainIdle
    /\ SelectIdle
    /\ ClassifyIdle
    /\ h_pc = "idle"
    /\ HarvestIdle
    /\ c_pc = "off"
    /\ ClientIdle

NextHarvest ==
    \/ \E leaf_datasets \in SeqsUpTo(LeafDocs, MaxLeaf) :
           HarvestStart(leaf_datasets)
    \/ \E d \in LeafDocs : HarvestDataset(d, get_dataset_id(d))
    \/ HarvestReturn
    \/ HarvestStopped

SpecHarvest == InitHarvest /\ [][NextHarvest]_vars

(***************************************************************************)
(* labcas_client.py: one call of list_all_files_for_dataset, with every    *)
(* HTTP request of the _get calls it makes as a step of its own.  The      *)
(* server answers each request as it likes: with the page asked for, with  *)
(* JSON that has no response.docs, with status 401, with another error     *)
(* status, or not at all (connection error, timeout, body that is no       *)
(* JSON).  A token request succeeds or raises.                             *)
(***************************************************************************)
MaxDocs == 3

BatchSize == 2

Responses == {"page", "other_json", "401", "http_error", "error"}

\* the documents start+1 .. start+batch_size of the n the server has
PageDocs(start, batch_size, n) ==
    [i \in 1..(Min({start + batch_size, n}) - Min({start, n})) |-> start + i]

\* the JSON of a select: response.docs and response.numFound
PageOf(start, batch_size, n) ==
    [has_docs |-> TRUE, docs |-> PageDocs(start, batch_size, n),
     numFound |-> n]

\* JSON without response.docs
OtherJson == [has_docs |-> FALSE, docs |-> << >>, numFound |-> 0]

\* line 148: list_all_files_for_dataset calls _get for the page at start
GetCall ==
    /\ c_pc = "page"
    /\ c_pc' = "ensure"
    /\ g_post' = FALSE
    /\ g_requests' = 0
    /\ g_auth' = 0
    /\ g_result' = << >>
    /\ UNCHANGED <<c_docs, c_start, c_all, c_token_old>>
    /\ UNCHANGED <<mainVars, selectVars, classifyVars, harvestVars>>

\* line 57, _ensure_valid_token: an old token is refreshed; get_jwt_token
\* raises when the token request fails
EnsureValidToken(refreshed) ==
    /\ c_pc = "ensure"
    /\ IF c_token_old
       THEN /\ g_auth' = g_auth + 1
            /\ c_token_old' = ~refreshed
            /\ c_pc' = IF refreshed THEN "send" ELSE "handler"
       ELSE /\ c_pc' = "send"
            /\ UNCHANGED <<g_auth, c_token_old>>
    /\ UNCHANGED <<c_docs, c_start, c_all, g_post, g_requests, g_result>>
    /\ UNCHANGED <<mainVars, selectVars, classifyVars, harvestVars>>

\* where _get goes after a request that failed otherwise than with 401:
\* a GET falls back to POST (lines 85-87, 92-94), a POST raises
AfterFailure(use_post) == IF use_post THEN "handler" ELSE "ensure"

\* lines 61-95: the first request of a _get and what its answer leads to
Send(resp) ==
    /\ c_pc = "send"
    /\ g_requests' = g_requests + 1
    /\ c_pc' = IF resp \in {"page", "other_json"} THEN "got"
              ELSE IF resp = "401" THEN "refresh401"
              ELSE AfterFailure(g_post)
    /\ g_post' = (g_post \/ c_pc' = "ensure")
    /\ g_result' = IF resp = "page"
                   THEN << PageOf(c_start, BatchSize, c_docs) >>
                   ELSE IF resp = "other_json" THEN << OtherJson >>
                   ELSE << >>
    /\ UNCHANGED <<c_docs, c_start, c_all, c_token_old, g_auth>>
    /\ UNCHANGED <<mainVars, selectVars, classifyVars, harvestVars>>

\* line 74: refresh_token after a 401
Refresh401(refreshed) ==
    /\ c_pc = "refresh401"
    /\ g_auth' = g_auth + 1
    /\ c_token_old' = IF refreshed THEN FALSE ELSE c_token_old
    /\ c_pc' = IF refreshed THEN "resend" ELSE "handler"
    /\ UNCHANGED <<c_docs, c_start, c_all, g_post, g_requests, g_result>>
    /\ UNCHANGED <<mainVars, selectVars, classifyVars, harvestVars>>

\* a repeated request whose failure starts the POST fallback
Resend_FallsBack(resp) ==
    /\ c_pc = "resend"
    /\ g_requests' = g_requests + 1
    /\ c_pc' = IF resp \in {"page", "other_json"} THEN "got"
              ELSE AfterFailure(g_post)
    /\ g_post' = (g_post \/ c_pc' = "ensure")
    /\ g_result' = IF resp = "page"
                   THEN << PageOf(c_start, BatchSize, c_docs) >>
                   ELSE IF resp = "other_json" THEN << OtherJson >>
                   ELSE << >>
    /\ UNCHANGED <<c_docs, c_start, c_all, c_token_old, g_auth>>
    /\ UNCHANGED <<mainVars, selectVars, classifyVars, harvestVars>>

\* lines 76-82: the same request once more; raised inside the except
\* clause, any failure leaves _get
Resend(resp) ==
    /\ c_pc = "resend"
    /\ g_requests' = g_requests + 1
    /\ c_pc' = IF resp \in {"page", "other_json"} THEN "got" ELSE "handler"
    /\ g_result' = IF resp = "page"
                   THEN << PageOf(c_start, BatchSize, c_docs) >>
                   ELSE IF resp = "other_json" THEN << OtherJson >>
                   ELSE << >>
    /\ UNCHANGED <<c_docs, c_start, c_all, c_token_old, g_post, g_auth>>
    /\ UNCHANGED <<mainVars, selectVars, classifyVars, harvestVars>>

\* lines 164-170 for a page with documents
Extend(docs, num_found) ==
    /\ c_all' = c_all \o docs
    /\ c_start' = c_start + Len(docs)
    /\ c_pc' = IF Len(c_all') >= num_found THEN "returned" ELSE "page"

\* lines 158-173: the result of _get; result["response"]["docs"] raises
\* KeyError when the JSON has no such field
PageGot ==
    /\ c_pc = "got"
    /\ IF ~g_result[1].has_docs
       THEN c_pc' = "handler" /\ UNCHANGED <<c_all, c_start>>
       ELSE IF g_result[1].docs = << >>
       THEN c_pc' = "returned" /\ UNCHANGED <<c_all, c_start>>
       ELSE Extend(g_result[1].docs, g_result[1].numFound)
    /\ UNCHANGED <<c_docs, c_token_old, g_post, g_requests, g_auth, g_result>>
    /\ UNCHANGED <<mainVars, selectVars, classifyVars, harvestVars>>

\* lines 175-179: except Exception: refresh_token(); continue.  When the
\* token request fails too, the exception leaves the function
Handler(refreshed) ==
    /\ c_pc = "handler"
    /\ c_token_old' = IF refreshed THEN FALSE ELSE c_token_old
    /\ c_pc' = IF refreshed THEN "page" ELSE "raised"
    /\ UNCHANGED <<c_docs, c_start, c_all, g_post, g_requests, g_auth,
                   g_result>>
    /\ UNCHANGED <<mainVars, selectVars, classifyVars, harvestVars>>

InitClient ==
    /\ pc = "client"
    /\ input_exists = TRUE
    /\ MainIdle
    /\ SelectIdle
    /\ ClassifyIdle
    /\ h_pc = "off"
    /\ HarvestIdle
    /\ c_pc = "page"
    /\ c_docs \in 0..MaxDocs
    /\ c_start = 0
    /\ c_all = << >>
    /\ c_token_old \in BOOLEAN
    /\ g_post = FALSE
    /\ g_requests = 0
    /\ g_auth = 0
    /\ g_result = << >>

NextClient ==
    \/ GetCall
    \/ \E refreshed \in BOOLEAN : EnsureValidToken(refreshed)
    \/ \E resp \in Responses : Send(resp)
    \/ \E refreshed \in BOOLEAN : Refresh401(refreshed)
    \/ \E resp \in Responses : Resend(resp)
    \/ PageGot
    \/ \E refreshed \in BOOLEAN : Handler(refreshed)

\* the program keeps running: a step that can be taken is taken
SpecClient == InitClient /\ [][NextClient]_vars /\ WF_vars(NextClient)

(***************************************************************************)
(* Properties.                                                             *)
(***************************************************************************)
\* the group key a manifest row stands for
RowKey(r) == <<r.patient_id, r.view>>

\* the file identifier behind a row's locator
FileOfUrl(url) == SubSeq(url, Len(BASE_URL) + 1, Len(url))

\* extract_from_path of every identifier of the file entries
ParsedIds ==
    [file_id \in {f.file_id : f \in FileRecs} |-> extract_from_path(file_id)]

\* the identifier parses and carries no numeric suffix
SuffixAbsent(file_id) ==
    LET parsed == ParsedIds[file_id]
    IN  parsed # << >> /\ parsed[1].suffix = << >>

\* the identifier parses and carries a numeric suffix
SuffixPresent(file_id) ==
    LET parsed == ParsedIds[file_id]
    IN  parsed # << >> /\ parsed[1].suffix # << >>

\* the selector returns a winner for the list
HasWinner(list) == select_best_candidate(list).best # << >>

RowsWithKey(rs, key) == {i \in DOMAIN rs : RowKey(rs[i]) = key}

Finished == pc = "done"

\* C1: when the run has finished, the written manifest holds a row for a
\* (patient_id, view) key iff that key is a group whose PROC list and whose
\* MASK list both have a winner of the selector; a group with a winner on
\* one side only, or on neither, has no row.
C1_RowIffBothWinners ==
    Finished =>
        /\ manifest_out = << rows >>
        /\ \A i \in DOMAIN rows : RowKey(rows[i]) \in DOMAIN groups
        /\ \A key \in DOMAIN groups :
              (RowsWithKey(rows, key) # {})
                  <=> (HasWinner(groups[key].proc) /\ HasWinner(groups[key].mask))

\* a finished run with a paired group, a group with a winner on one side
\* only and a group with a winner on neither side
C1_Witness ==
    /\ Finished
    /\ \E k1, k2, k3 \in DOMAIN groups :
          /\ RowsWithKey(rows, k1) # {}
          /\ HasWinner(groups[k2].proc) /\ ~HasWinner(groups[k2].mask)
          /\ ~HasWinner(groups[k3].proc) /\ ~HasWinner(groups[k3].mask)

\* C2: no two manifest rows share their (patient_id, view), also when
\* compared without regard to letter case; every group key is upper-case,
\* and every file of a group parses to that key once upper-cased, so files
\* differing only in letter case or in numeric suffix share one group.
C2_UniqueKeys ==
    /\ \A i, j \in DOMAIN rows :
          i # j => <<Upper(rows[i].patient_id), Upper(rows[i].view)>>
                   # <<Upper(rows[j].patient_id), Upper(rows[j].view)>>
    /\ \A key \in DOMAIN groups :
          /\ key = <<Upper(key[1]), Upper(key[2])>>
          /\ \A f \in Range(groups[key].proc) \cup Range(groups[key].mask) :
                LET parsed == ParsedIds[f.file_id]
                IN  /\ parsed # << >>
                    /\ Upper(parsed[1].patient) = key[1]
                    /\ Upper(parsed[1].view) = key[2]

\* a finished run where one group holds a lower-case file, an upper-case
\* file and a suffixed file, and yields one row
C2_Witness ==
    /\ Finished
    /\ Len(rows) = 1
    /\ \E key \in DOMAIN groups :
          LET ids == {f.file_id : f \in Range(groups[key].proc)
                                        \cup Range(groups[key].mask)}
          IN  {FID_C025_LCC, FID_c025_lcc, FID_C025_LCC_2} \subseteq ids

\* C3: the selector never returns a file with a numeric suffix: for every
\* candidate list of every group of a finished run the winner, if any, has
\* no suffix, and a non-empty list whose files all carry a suffix has no
\* winner, with reason no_clean_file_found; the winners held by the pairing
\* loop and the proc and mask file of every manifest row have no suffix.
C3_NoSuffixedWinner ==
    /\ Finished =>
          \A key \in DOMAIN groups :
              \A list \in {groups[key].proc, groups[key].mask} :
                  LET r == select_best_candidate(list)
                  IN  /\ r.best # << >> => SuffixAbsent(r.best[1].file_id)
                      /\ (list # << >>
                            /\ \A i \in DOMAIN list :
                                  SuffixPresent(list[i].file_id))
                         => (r.best = << >>
                               /\ r.info = [reason |-> "no_clean_file_found"])
    /\ best_proc # << >> => SuffixAbsent(best_proc[1].file_id)
    /\ best_mask # << >> => SuffixAbsent(best_mask[1].file_id)
    /\ \A i \in DOMAIN rows :
          /\ SuffixAbsent(FileOfUrl(rows[i].proc_url))
          /\ SuffixAbsent(FileOfUrl(rows[i].mask_url))

\* a finished run with a row and with a one-element candidate list whose
\* only file carries a suffix
C3_Witness ==
    /\ Finished
    /\ rows # << >>
    /\ \E key \in DOMAIN groups :
          /\ Len(groups[key].proc) = 1
          /\ SuffixPresent(groups[key].proc[1].file_id)

\* C4: when the run has finished, every group in which a role has no
\* winner has exactly one half_pairs entry, named patient_view, whose
\* has_proc / has_mask flags tell which roles have a winner and whose
\* counts are the lengths of the group's two lists; the group has no row.
C4_HalfPairs ==
    Finished =>
        \A key \in DOMAIN groups :
            LET wp == HasWinner(groups[key].proc)
                wm == HasWinner(groups[key].mask)
                name == key[1] \o <<"_">> \o key[2]
                entries == {i \in DOMAIN half_pairs : half_pairs[i].group = name}
            IN  ~(wp /\ wm) =>
                    /\ Cardinality(entries) = 1
                    /\ \A i \in entries :
                          half_pairs[i] =
                              [group |-> name,
                               has_proc |-> wp,
                               has_mask |-> wm,
                               proc_candidates |-> Len(groups[key].proc),
                               mask_candidates |-> Len(groups[key].mask)]
                    /\ RowsWithKey(rows, key) = {}
                    /\ diag_out[1].half_pairs = half_pairs

\* a finished run whose only group holds a clean PROC file and no MASK file
C4_Witness ==
    /\ Finished
    /\ rows = << >>
    /\ Len(half_pairs) = 1
    /\ half_pairs[1].has_proc /\ ~half_pairs[1].has_mask
    /\ half_pairs[1].mask_candidates = 0

\* C5: every (patient_id, view) of the manifest has an entry in the
\* decisions map under patient_view, and none is named in half_pairs.
C5_DecisionsRoundTrip ==
    /\ \A i \in DOMAIN rows :
          LET name == rows[i].patient_id \o <<"_">> \o rows[i].view
          IN  /\ name \in DOMAIN decisions
              /\ \A j \in DOMAIN half_pairs : half_pairs[j].group # name
    /\ Finished =>
          /\ manifest_out = << rows >>
          /\ diag_out[1].decisions = decisions
          /\ diag_out[1].half_pairs = half_pairs

\* a finished run with a row and a half pair
C5_Witness ==
    /\ Finished
    /\ rows # << >>
    /\ half_pairs # << >>
    /\ DOMAIN decisions # {}

\* the lists with the same entries in another order
Reorderings(list) ==
    LET n == Len(list)
        bijections == {q \in [1..n -> 1..n] :
                         \A i, j \in 1..n : q[i] = q[j] => i = j}
    IN  {[i \in 1..n |-> list[q[i]]] : q \in bijections}

\* the candidates the selector may choose among
CleanOnes(list) ==
    {list[i] : i \in {j \in DOMAIN list : SuffixAbsent(list[j].file_id)}}

\* C6: the selector's result does not depend on the order of the list: it
\* returns, for every permutation of the list, the same file entry and the
\* same reason, and the entry is the clean candidate with the smallest
\* file identifier (file identifiers are unique among the entries).
C6_OrderIndependent ==
    pc = "selected" =>
        /\ \A perm \in Reorderings(candidates) :
              select_best_candidate(perm) = selected[1]
        /\ IF CleanOnes(candidates) = {}
           THEN selected[1] =
                    [best |-> << >>, info |-> [reason |-> "no_clean_file_found"]]
           ELSE /\ selected[1].info = [reason |-> "clean_file_selected"]
                /\ selected[1].best # << >>
                /\ selected[1].best[1] \in CleanOnes(candidates)
                /\ \A c \in CleanOnes(candidates) :
                      ~StrLess(c.file_id, selected[1].best[1].file_id)

\* a call on a list whose first entry is clean but not the winner
C6_Witness ==
    /\ pc = "selected"
    /\ Len(candidates) >= 2
    /\ SuffixAbsent(candidates[1].file_id)
    /\ selected[1].best # << >>
    /\ selected[1].best[1] # candidates[1]

\* C7: the rows are in strictly ascending order of (patient_id, view), as
\* Python orders tuples of strings, at every point of the pairing loop and
\* in the written manifest.
C7_RowsAscending ==
    /\ \A i, j \in DOMAIN rows :
          i < j =>
              \/ StrLess(rows[i].patient_id, rows[j].patient_id)
              \/ /\ rows[i].patient_id = rows[j].patient_id
                 /\ StrLess(rows[i].view, rows[j].view)
    /\ Finished => manifest_out = << rows >>

\* a finished run with two rows of one patient and two views
C7_Witness ==
    /\ Finished
    /\ Len(rows) = 2
    /\ rows[1].patient_id = rows[2].patient_id

\* C8: the rows of a finished run are the rows the pairing loop produces
\* from the grouping of the same document without its suffix-bearing files.
C8_SuffixedFilesIgnored ==
    Finished => /\ rows = RowsOf(groups_stripped)
                /\ manifest_out = << rows >>

\* a finished run on PROC {X_LCC.dcm, X_LCC_2.dcm} and MASK {X_LCC.dcm}:
\* one row pairing the two suffix-absent files
C8_Witness ==
    /\ Finished
    /\ Len(rows) = 1
    /\ \E key \in DOMAIN groups :
          /\ {f.file_id : f \in Range(groups[key].proc)}
                 = {FID_C025_LCC, FID_C025_LCC_2}
          /\ {f.file_id : f \in Range(groups[key].mask)} = {FID_C025_LCC}
    /\ FileOfUrl(rows[1].proc_url) = FID_C025_LCC
    /\ FileOfUrl(rows[1].mask_url) = FID_C025_LCC

\* the four mammographic view codes
FourViews ==
    { <<"L", "C", "C">>, <<"L", "M", "L", "O">>,
      <<"R", "C", "C">>, <<"R", "M", "L", "O">> }

\* the identifier parses to a view outside the four codes
ViewDisallowed(file_id) ==
    LET parsed == extract_from_path(file_id)
    IN  parsed # << >> /\ parsed[1].view \notin FourViews

\* the file entries with such an identifier
DisallowedRecs == {f \in FileRecs : ViewDisallowed(f.file_id)}

\* C9: scanning a file whose parsed view is none of LCC, LMLO, RCC, RMLO
\* leaves every group as it is and adds one to the disallowed-view counter;
\* every group key and every manifest row has one of the four views.
C9_DisallowedViewSkipped ==
    /\ [](/\ \A key \in DOMAIN groups : key[2] \in FourViews
          /\ \A i \in DOMAIN rows : rows[i].view \in FourViews)
    /\ [][\A f \in DisallowedRecs :
             ProcessFile(f) => /\ groups' = groups
                               /\ skipped_views' = skipped_views + 1]_vars

\* a finished run that skipped a file for its view and still formed a row
C9_Witness ==
    /\ Finished
    /\ skipped_views >= 1
    /\ rows # << >>

\* the declared name of the dataset: DatasetName, its first element when
\* it is a list ("" for an empty list or a missing field)
DeclaredName(meta) ==
    LET val == meta.DatasetName
    IN  IF val.t = "list" THEN (IF Len(val.l) > 0 THEN Head(val.l) ELSE "")
        ELSE IF val.t = "str" THEN val.s
        ELSE IF val.t = "null" THEN "None"
        ELSE ""

\* C10: the declared name has priority over the identifier: a declared
\* name that is exactly PROC or MASK is the role, whatever the identifier;
\* otherwise the role is PROC when the identifier contains /PROC, else
\* MASK when it contains /MASK, else none.
C10_DeclaredNameFirst ==
    pc = "classified" =>
        LET declared == DeclaredName(ds_meta)
            role == ds_role[1]
        IN  /\ declared = "PROC" => role = << "PROC" >>
            /\ declared = "MASK" => role = << "MASK" >>
            /\ declared \notin {"PROC", "MASK"} =>
                  /\ Contains(ds_id, SLASH_PROC) => role = << "PROC" >>
                  /\ (~Contains(ds_id, SLASH_PROC) /\ Contains(ds_id, SLASH_MASK))
                         => role = << "MASK" >>
                  /\ (~Contains(ds_id, SLASH_PROC) /\ ~Contains(ds_id, SLASH_MASK))
                         => role = << >>

\* a dataset declared MASK, as the first element of a list, under an
\* identifier that contains /PROC: classified MASK
C10_Witness ==
    /\ pc = "classified"
    /\ ds_meta.DatasetName = List(<<"MASK", "PROC">>)
    /\ Contains(ds_id, SLASH_PROC)
    /\ ds_role[1] = << "MASK" >>

\* the (name, identifier) pairs of a dataset whose role is unknown: the
\* declared name is neither PROC nor MASK and the identifier contains
\* neither /PROC nor /MASK
UnknownDatasets ==
    {u \in DatasetNames \X DatasetIds :
        /\ DeclaredName([DatasetName |-> u[1]]) \notin {"PROC", "MASK"}
        /\ ~Contains(u[2], SLASH_PROC)
        /\ ~Contains(u[2], SLASH_MASK)}

\* get_dataset_type gives no role to any of them
UnknownHaveNoRole ==
    \A u \in UnknownDatasets :
        get_dataset_type([DatasetName |-> u[1]], u[2]) = << >>

\* C11: a dataset of unknown role is skipped entirely: it gets no role,
\* the step of the dataset loop that finds no role leaves the groups,
\* the three counters and the outputs as they are and goes on with the
\* next dataset, and files are only ever scanned under a dataset whose
\* role is PROC or MASK.
C11_UnknownDatasetSkipped ==
    /\ [](/\ UnknownHaveNoRole
          /\ pc = "files" => ds_type \in {<< "PROC" >>, << "MASK" >>})
    /\ [][(pc = "datasets" /\ ds_type' = << >> /\ pc' # "reconcile") =>
             /\ pc' = "datasets"
             /\ UNCHANGED <<groups, total_files, skipped_files,
                            skipped_views, rows, decisions,
                            half_pairs>>]_vars

\* a dataset of unknown role was met after files had been grouped
C11_Witness ==
    /\ pc = "datasets"
    /\ ds_type = << >>
    /\ groups # EmptyFun

\* C12: once the document is loaded the engine never raises on a
\* malformed entry: the run never ends in a traceback.
C12_NeverRaises == pc # "raised"

\* C13: when the input document does not exist the run aborts before any
\* processing: no dataset is classified, no file scanned, no group built,
\* and neither output is written.
C13_MissingInputAborts ==
    ~input_exists =>
        /\ pc \in {"start", "aborted"}
        /\ ds_type = << >>
        /\ groups = EmptyFun
        /\ total_files = 0
        /\ rows = << >>
        /\ decisions = EmptyFun
        /\ half_pairs = << >>
        /\ manifest_out = << >>
        /\ diag_out = << >>

\* the run that found no input document and stopped
C13_Witness == pc = "aborted" /\ ~input_exists

\* the last underscore-delimited token of the file name, its four-
\* character extension left out
LastToken(file_id) ==
    LET seg == LastSegment(file_id)
        stem == SubSeq(seg, 1, Len(seg) - 4)
        bars == {i \in DOMAIN stem : stem[i] = "_"}
    IN  IF bars = {} THEN stem
        ELSE SubSeq(stem, (CHOOSE i \in bars : \A j \in bars : j <= i) + 1,
                    Len(stem))

\* the token has a digit and a letter
Mixed(tok) ==
    /\ \E i \in DOMAIN tok : tok[i] \in DigitSet
    /\ \E i \in DOMAIN tok : tok[i] \in UpperSet \cup LowerSet

\* the file entries whose view-position token mixes digits and letters
MixedRecs ==
    {f \in FileRecs : f.file_id # << >> /\ Mixed(LastToken(f.file_id))}

\* C14: an identifier whose last token before .dcm mixes a digit with
\* letters does not parse; scanning such a file adds one to the
\* unparseable counter and leaves the groups and the disallowed-view
\* counter as they are, and no group ever holds such a file.
C14_MixedTokenUnparseable ==
    /\ [](/\ \A f \in MixedRecs : extract_from_path(f.file_id) = << >>
          /\ \A key \in DOMAIN groups :
                /\ \A i \in DOMAIN groups[key].proc :
                      groups[key].proc[i] \notin MixedRecs
                /\ \A i \in DOMAIN groups[key].mask :
                      groups[key].mask[i] \notin MixedRecs)
    /\ [][\A f \in MixedRecs :
             ProcessFile(f) => /\ skipped_files' = skipped_files + 1
                               /\ skipped_views' = skipped_views
                               /\ groups' = groups]_vars

\* a file with view token L1 or R2D was scanned next to a grouped file
C14_Witness ==
    /\ Cardinality(MixedRecs) = 2
    /\ skipped_files >= 1
    /\ skipped_views = 0
    /\ total_files = skipped_files + 1
    /\ groups # EmptyFun

\* C15: the group label of every manifest row is "case" when the first
\* character of its patient_id is C and "control" otherwise.
C15_GroupLabel ==
    \A i \in DOMAIN rows :
        rows[i].group = IF rows[i].patient_id[1] = "C" THEN "case"
                        ELSE "control"

\* a finished run with a case row and a control row
C15_Witness ==
    /\ Finished
    /\ \E i \in DOMAIN rows :
          rows[i].patient_id[1] = "C" /\ rows[i].group = "case"
    /\ \E i \in DOMAIN rows :
          rows[i].patient_id[1] = "N" /\ rows[i].group = "control"

\* the total length of the candidate lists of the groups with these keys
RECURSIVE Listed(_, _)
Listed(g, keys) ==
    IF keys = {} THEN 0
    ELSE LET key == CHOOSE k \in keys : TRUE
         IN  Len(g[key].proc) + Len(g[key].mask) + Listed(g, keys \ {key})

\* C16: at the end of grouping the number of files scanned equals
\* unparseable + disallowed-view + the total length of all candidate
\* lists.
C16_EveryFileAccounted ==
    pc \in {"reconcile", "done"} =>
        total_files = skipped_files + skipped_views
                        + Listed(groups, DOMAIN groups)

\* a step that is one iteration of the for loop of harvest_files
Iteration ==
    /\ h_pc = "loop"
    /\ h_pc' = "loop"
    /\ h_leaf # << >>
    /\ h_leaf' = Tail(h_leaf)

FirstDocs(n) == [i \in 1..n |-> i]

\* C19: every call of list_all_files_for_dataset eventually returns or
\* raises, whatever the server answers, and what has been collected is
\* always the documents before the current offset, each once, in order.
C19_PaginationTerminates ==
    /\ <>(c_pc \in {"returned", "raised"})
    /\ [](c_all = FirstDocs(c_start))

====
